---------------------------- MODULE Spec2Model ----------------------------
(***************************************************************************)
(* Approximating pi with three Monte Carlo methods (src/src/main.rs):      *)
(* main runs random_walk, buffons_needle and circle_inside_square in turn. *)
(*                                                                         *)
(* f64 values are modelled as exact extended rationals [n, d]: d > 0 is    *)
(* the finite value n/d in lowest terms, 1/0 is +infinity, -1/0 is         *)
(* -infinity and 0/0 is NaN.  Every zero of the program is +0.0 (counters  *)
(* and sums of absolute values), so x / 0 takes the sign of x.             *)
(***************************************************************************)
EXTENDS Integers, Sequences, FiniteSets, TLC

\* ---------------------------------------------------------------- bounds
\* main passes steps = 100, walks = 10_000, total_iterations = 1_000_000;
\* the model draws the arguments of each call from 0..Max instead.
MaxSteps == 3
MaxWalks == 2
MaxIterations == 3
\* Number of values the model takes from each rng.gen_range(low, high).
FlipSamples == 2
XSamples == 2
AngleSamples == 4
PixelSamples == 2
\* inside_counter and total_counter are f64: c += 1.0 is exact only while
\* c < 2^53 and leaves c unchanged from then on.  The frame loop has no
\* iteration bound, so the model keeps that saturation, with MaxCount
\* standing for 2^53.  The loops of buffons_needle and random_walk are
\* bounded by their arguments, which stay far below that limit.
MaxCount == 2

\* ------------------------------------------------------------- constants
WIDTH == 512
HEIGHT == 540
TEXT_HEIGHT == 28
square_of_radius == 1
needle_length == 1
parallel_width == 1
\* 6.28318530718 in units of 1/1000 rad (angles are integers in that unit).
two_pi == 6283

\* ------------------------------------------------------------ f64 values
Abs(x) == IF x < 0 THEN -x ELSE x

\* Euclid's algorithm (a function: its arguments are evaluated once).
GCD[a \in Nat, b \in Nat] == IF b = 0 THEN a ELSE GCD[b, a % b]

\* The values of an f64 (see above).
Float == [n : Int, d : Nat]

\* The operations on f64 are functions: an argument is evaluated once, where
\* it is passed.
\* n/d with d > 0, in lowest terms.
Mk[n \in Int, d \in Nat] == LET g == GCD[Abs(n), d] IN [n |-> n \div g, d |-> d \div g]

F(i) == [n |-> i, d |-> 1]
PosInf == [n |-> 1, d |-> 0]
NegInf == [n |-> -1, d |-> 0]
NaN == [n |-> 0, d |-> 0]

IsFinite(x) == x.d > 0
IsNaN(x) == x.d = 0 /\ x.n = 0
Sign(i) == IF i > 0 THEN 1 ELSE IF i < 0 THEN -1 ELSE 0

FAdd[x \in Float, y \in Float] ==
    IF IsNaN(x) \/ IsNaN(y) THEN NaN
    ELSE IF IsFinite(x) /\ IsFinite(y) THEN
        LET g == GCD[x.d, y.d]
        IN  Mk[x.n * (y.d \div g) + y.n * (x.d \div g), (x.d \div g) * y.d]
    ELSE IF IsFinite(x) THEN y
    ELSE IF IsFinite(y) THEN x
    ELSE IF x = y THEN x ELSE NaN

FMul[x \in Float, y \in Float] ==
    IF IsNaN(x) \/ IsNaN(y) THEN NaN
    ELSE IF IsFinite(x) /\ IsFinite(y) THEN
        LET a == Mk[x.n, y.d]
            b == Mk[y.n, x.d]
        IN  [n |-> a.n * b.n, d |-> a.d * b.d]
    ELSE IF Sign(x.n) * Sign(y.n) = 0 THEN NaN
    ELSE [n |-> Sign(x.n) * Sign(y.n), d |-> 0]

FDiv[x \in Float, y \in Float] ==
    IF IsNaN(x) \/ IsNaN(y) THEN NaN
    ELSE IF IsFinite(x) /\ IsFinite(y) THEN
        IF y.n = 0 THEN [n |-> Sign(x.n), d |-> 0]
        ELSE Mk[Sign(y.n) * x.n * y.d, Abs(y.n) * x.d]
    ELSE IF IsFinite(x) THEN F(0)
    ELSE IF IsFinite(y) THEN [n |-> x.n * (IF y.n < 0 THEN -1 ELSE 1), d |-> 0]
    ELSE NaN

\* x < y; every comparison with NaN is false.
FLess[x \in Float, y \in Float] ==
    IF IsNaN(x) \/ IsNaN(y) THEN FALSE
    ELSE IF IsFinite(x) /\ IsFinite(y) THEN x.n * y.d < y.n * x.d
    ELSE (x = NegInf /\ y # NegInf) \/ (y = PosInf /\ x # PosInf)

\* x.powf[e] for a small non-negative integer exponent e.
powf[x \in Float, e \in Nat] == IF e = 0 THEN F(1) ELSE FMul[x, powf[x, e - 1]]

\* f64::cos of an angle a in 0..two_pi (1/1000 rad), by Bhaskara's rational
\* approximation (pi^2 - 4x^2) / (pi^2 + x^2) on [-pi/2, pi/2], reflected
\* into the other quadrants.  cos[0] = 1 and cos[pi] = -1 exactly.
CosCore[x \in Int] ==
    LET p == two_pi \div 2
    IN  Mk[p * p - 4 * x * x, p * p + x * x]

cos[a \in Int] ==
    LET p == two_pi \div 2
        h == p \div 2
    IN  IF a <= h THEN CosCore[a]
        ELSE IF a <= p + h THEN FMul[F(-1), CosCore[a - p]]
        ELSE CosCore[a - two_pi]

\* ----------------------------------------------------- the random source
\* rng.gen_range(low, high) over integers: samples of low..high-1 that
\* include both ends.
GenRangeInt(low, high, samples) ==
    {low + (k * (high - low)) \div samples : k \in 0..(samples - 1)} \cup {high - 1}

\* rng.gen_range(low, high) over f64: samples of [low, high) from low.
GenRangeF(low, high, samples) ==
    {Mk[low * samples + k * (high - low), samples] : k \in 0..(samples - 1)}

\* The c += 1_f64 of the frame loop (see MaxCount).
Inc(c) == IF c < MaxCount THEN c + 1 ELSE c

VARIABLES
    pc,                     \* where main is
    output,                 \* the lines printed so far
    ret,                    \* <<v>>: the value the running call returned
    steps, walks,           \* random_walk: arguments
    walk_i, step_i,         \* random_walk: the two loop indices
    position,
    sum_of_abs_distances,
    abs_distance,
    flips,                  \* history: gen_range calls of this random_walk
    plus_steps, minus_steps,\* history: +1 and -1 moves of the current walk
    walk_log,               \* history: <<plus, minus>> of each finished walk
    iterations,             \* buffons_needle: argument
    trial_i,                \* buffons_needle: loop index
    cross_counter,
    needle_start_x, angle, needle_end_x,
    window_open,            \* circle_inside_square: window.next() is Some
    inside_counter, total_counter,
    pos_x, pos_y, point_x, point_y,
    text                    \* <<v>>: the ratio drawn in the window

rwVars == <<steps, walks, walk_i, step_i, position, sum_of_abs_distances,
            abs_distance, flips, plus_steps, minus_steps, walk_log>>
bnVars == <<iterations, trial_i, cross_counter, needle_start_x, angle,
            needle_end_x>>
csVars == <<window_open, inside_counter, total_counter, pos_x, pos_y,
            point_x, point_y, text>>
vars == <<pc, output, ret, rwVars, bnVars, csVars>>

ResultLine(method, v) == [kind |-> "result", label |-> method, pi |-> <<v>>]
TextLine(s) == [kind |-> "text", label |-> s, pi |-> <<>>]

\* No call is running: every local holds its initial value.
RwIdle ==
    /\ steps = 0 /\ walks = 0 /\ walk_i = 0 /\ step_i = 0
    /\ position = 0 /\ sum_of_abs_distances = 0 /\ abs_distance = 0
    /\ flips = 0 /\ plus_steps = 0 /\ minus_steps = 0 /\ walk_log = <<>>

BnIdle ==
    /\ iterations = 0 /\ trial_i = 0 /\ cross_counter = 0
    /\ needle_start_x = F(0) /\ angle = 0 /\ needle_end_x = F(0)

\* A call's frame is dropped when main has taken its value.
RwDrop ==
    /\ steps' = 0 /\ walks' = 0 /\ walk_i' = 0 /\ step_i' = 0
    /\ position' = 0 /\ sum_of_abs_distances' = 0 /\ abs_distance' = 0
    /\ flips' = 0 /\ plus_steps' = 0 /\ minus_steps' = 0 /\ walk_log' = <<>>

BnDrop ==
    /\ iterations' = 0 /\ trial_i' = 0 /\ cross_counter' = 0
    /\ needle_start_x' = F(0) /\ angle' = 0 /\ needle_end_x' = F(0)

Init ==
    /\ pc = "main"
    /\ output = <<>>
    /\ ret = <<>>
    /\ RwIdle
    /\ BnIdle
    /\ window_open = FALSE
    /\ inside_counter = 0 /\ total_counter = 0
    /\ pos_x = 0 /\ pos_y = 0 /\ point_x = F(0) /\ point_y = F(0)
    /\ text = <<>>

\* ------------------------------------------------------------ random_walk
\* main, lines 14-16: the call random_walk(steps, walks).
MainCallRandomWalk ==
    /\ pc = "main"
    /\ \E s \in 0..MaxSteps, w \in 0..MaxWalks :
        /\ steps' = s
        /\ walks' = w
    /\ pc' = "random_walk"
    /\ UNCHANGED <<output, ret, walk_i, step_i, position, sum_of_abs_distances,
                   abs_distance, flips, plus_steps, minus_steps, walk_log,
                   bnVars, csVars>>

\* Move with the else branch lost: only a draw below 0.5 moves.
Move_NoBackward(pos, flip) == IF FLess[flip, Mk[1, 2]] THEN pos + 1 ELSE pos

\* Lines 179-183: one move.
Move(pos, flip) == IF FLess[flip, Mk[1, 2]] THEN pos + 1 ELSE pos - 1

\* AbsDistance without the abs() call.
AbsDistance_Signed(pos) == pos

\* Line 186: position.abs().
AbsDistance(pos) == Abs(pos)

\* MoreSteps with the range one short (0..steps-1).
MoreSteps_OffByOne(i, n) == i + 1 < n

\* The inner loop `for _ in 0..steps` has more to do.
MoreSteps(i, n) == i < n

\* Lines 176-184: one iteration of the inner loop.
RwStep ==
    /\ pc = "random_walk"
    /\ walk_i < walks
    /\ MoreSteps(step_i, steps)
    /\ \E flip \in GenRangeF(0, 1, FlipSamples) :
        /\ position' = Move(position, flip)
        /\ plus_steps' = plus_steps + (IF FLess[flip, Mk[1, 2]] THEN 1 ELSE 0)
        /\ minus_steps' = minus_steps + (IF FLess[flip, Mk[1, 2]] THEN 0 ELSE 1)
    /\ step_i' = step_i + 1
    /\ flips' = flips + 1
    /\ UNCHANGED <<pc, output, ret, steps, walks, walk_i, sum_of_abs_distances,
                   abs_distance, walk_log, bnVars, csVars>>

\* Lines 185-188 and 174-175: the walk ends, its distance is summed, and
\* the outer loop moves on (the next walk starts at position 0).
RwEndWalk ==
    /\ pc = "random_walk"
    /\ walk_i < walks
    /\ ~MoreSteps(step_i, steps)
    /\ abs_distance' = AbsDistance(position)
    /\ sum_of_abs_distances' = sum_of_abs_distances + AbsDistance(position)
    /\ walk_log' = Append(walk_log, <<plus_steps, minus_steps>>)
    /\ walk_i' = walk_i + 1
    /\ step_i' = 0
    /\ position' = 0
    /\ plus_steps' = 0
    /\ minus_steps' = 0
    /\ UNCHANGED <<pc, output, ret, steps, walks, flips, bnVars, csVars>>

\* RandomWalkResult without the square of the average.
RandomWalkResult_NoSquare(n_steps, n_walks, sum) ==
    FDiv[FMul[F(2), F(n_steps)], FDiv[F(sum), F(n_walks)]]

\* Lines 190-193.
RandomWalkResult(n_steps, n_walks, sum) ==
    LET average_sum_of_abs_distances == FDiv[F(sum), F(n_walks)]
    IN  FDiv[FMul[F(2), F(n_steps)], powf[average_sum_of_abs_distances, 2]]

RwReturn ==
    /\ pc = "random_walk"
    /\ walk_i >= walks
    /\ ret' = <<RandomWalkResult(steps, walks, sum_of_abs_distances)>>
    /\ pc' = "random_walk_returned"
    /\ UNCHANGED <<output, rwVars, bnVars, csVars>>

\* Line 16: println!("random walk: pi = {}", ...); random_walk's frame is gone.
MainPrintRandomWalk ==
    /\ pc = "random_walk_returned"
    /\ output' = Append(output, ResultLine("random walk", ret[1]))
    /\ ret' = <<>>
    /\ RwDrop
    /\ pc' = "main_18"
    /\ UNCHANGED <<bnVars, csVars>>

\* --------------------------------------------------------- buffons_needle
\* main, lines 18-19: the call buffons_needle(total_iterations).
MainCallBuffonsNeedle ==
    /\ pc = "main_18"
    /\ \E n \in 0..MaxIterations : iterations' = n
    /\ pc' = "buffons_needle"
    /\ UNCHANGED <<output, ret, rwVars, trial_i, cross_counter, needle_start_x,
                   angle, needle_end_x, csVars>>

\* Crosses with the upper comparison written >=.
Crosses_HalfOpen(end_x) ==
    FLess[end_x, F(0)] \/ ~FLess[end_x, F(parallel_width)]

\* Line 152: the end of the needle is outside of the width.
Crosses(end_x) == FLess[end_x, F(0)] \/ FLess[F(parallel_width), end_x]

\* Lines 144-155: one iteration of the loop.
BnTrial ==
    /\ pc = "buffons_needle"
    /\ trial_i < iterations
    /\ \E x0 \in GenRangeF(0, parallel_width, XSamples),
          a \in GenRangeInt(0, two_pi, AngleSamples) :
        /\ needle_start_x' = x0
        /\ angle' = a
        /\ needle_end_x' = FAdd[x0, FMul[F(needle_length), cos[a]]]
    /\ cross_counter' = IF Crosses(needle_end_x') THEN cross_counter + 1
                        ELSE cross_counter
    /\ trial_i' = trial_i + 1
    /\ UNCHANGED <<pc, output, ret, rwVars, iterations, csVars>>

\* BuffonsNeedleResult with a guard that hides the division by zero.
BuffonsNeedleResult_Guarded(n_iterations, crossings) ==
    IF crossings = 0 THEN F(0)
    ELSE FDiv[FMul[F(2), F(n_iterations)], F(crossings)]

\* BuffonsNeedleResult without the factor 2.
BuffonsNeedleResult_NoFactor(n_iterations, crossings) ==
    FDiv[F(n_iterations), F(crossings)]

\* Line 157.
BuffonsNeedleResult(n_iterations, crossings) ==
    FDiv[FMul[FMul[F(2), F(n_iterations)], F(needle_length)],
         FMul[F(crossings), F(parallel_width)]]

BnReturn ==
    /\ pc = "buffons_needle"
    /\ trial_i >= iterations
    /\ ret' = <<BuffonsNeedleResult(iterations, cross_counter)>>
    /\ pc' = "buffons_needle_returned"
    /\ UNCHANGED <<output, rwVars, bnVars, csVars>>

\* Line 19: println!("buffons needle: pi = {}", ...).
MainPrintBuffonsNeedle ==
    /\ pc = "buffons_needle_returned"
    /\ output' = Append(output, ResultLine("buffons needle", ret[1]))
    /\ ret' = <<>>
    /\ BnDrop
    /\ pc' = "main_23"
    /\ UNCHANGED <<rwVars, csVars>>

\* --------------------------------------------------- circle_inside_square
\* Lines 23 and 32-69: the window, the texture and the font are set up and
\* two lines are printed: the assets path ({:?}) and the banner.
CircleSetup ==
    /\ pc = "main_23"
    /\ output' = output \o <<TextLine("assets path"),
          TextLine("Displaying visuals for random points inside circle...")>>
    /\ window_open' = TRUE
    /\ pc' = "circle_loop"
    /\ UNCHANGED <<ret, rwVars, bnVars, inside_counter, total_counter, pos_x,
                   pos_y, point_x, point_y, text>>

\* Lines 33, 47, 51, 53: an unwrap() of the setup fails (no display, no
\* assets folder, no font) and main panics.
CircleSetupPanic ==
    /\ pc = "main_23"
    /\ pc' = "panicked"
    /\ UNCHANGED <<output, ret, rwVars, bnVars, csVars>>

\* Lines 125-130.
map(val, min, max, new_min, new_max) ==
    LET range == FAdd[max, FMul[F(-1), min]]
        new_range == FAdd[new_max, FMul[F(-1), new_min]]
    IN  FAdd[FMul[FDiv[val, range], new_range], new_min]

\* InsideCircle with the comparison written <=.
InsideCircle_Closed(x, y) ==
    ~FLess[F(square_of_radius), FAdd[powf[x, 2], powf[y, 2]]]

\* Line 99: the point is inside the circle.
InsideCircle(x, y) == FLess[FAdd[powf[x, 2], powf[y, 2]], F(square_of_radius)]

\* Ratio over the total from before this sample.
Ratio_StaleTotal(inside, total) == FDiv[FMul[F(4), F(inside)], F(total - 1)]

\* Line 113: the text drawn, 4 * inside_counter / total_counter.
Ratio(inside, total) == FDiv[FMul[F(4), F(inside)], F(total)]

\* Lines 70-121: window.next() yields a render event and the closure of
\* draw_2d runs once.  (For any other event draw_2d does not run the
\* closure and nothing changes.)
CircleFrame ==
    /\ pc = "circle_loop"
    /\ window_open
    /\ \E px \in GenRangeInt(0, WIDTH, PixelSamples),
          py \in GenRangeInt(0, HEIGHT - TEXT_HEIGHT, PixelSamples) :
        /\ pos_x' = px
        /\ pos_y' = py
        /\ point_x' = map(F(px), F(0), F(WIDTH), F(-1), F(1))
        /\ point_y' = map(F(py), F(0), F(HEIGHT - TEXT_HEIGHT), F(-1), F(1))
    /\ inside_counter' = IF InsideCircle(point_x', point_y')
                         THEN Inc(inside_counter) ELSE inside_counter
    /\ total_counter' = Inc(total_counter)
    /\ text' = <<Ratio(inside_counter', total_counter')>>
    /\ UNCHANGED <<pc, output, ret, rwVars, bnVars, window_open>>

\* Lines 105 and 117: an unwrap() in the closure fails (the texture update,
\* the drawing of the text) and main panics.
CircleFramePanic ==
    /\ pc = "circle_loop"
    /\ window_open
    /\ pc' = "panicked"
    /\ UNCHANGED <<output, ret, rwVars, bnVars, csVars>>

\* The user closes the window (or presses Esc, exit_on_esc): from then on
\* window.next() is None.
WindowClose ==
    /\ pc = "circle_loop"
    /\ window_open
    /\ window_open' = FALSE
    /\ UNCHANGED <<pc, output, ret, rwVars, bnVars, inside_counter,
                   total_counter, pos_x, pos_y, point_x, point_y, text>>

\* Lines 70 and 122-123, 24: window.next() is None, the loop ends,
\* circle_inside_square returns and main ends.
CircleReturn ==
    /\ pc = "circle_loop"
    /\ ~window_open
    /\ pc' = "done"
    /\ UNCHANGED <<output, ret, rwVars, bnVars, csVars>>

\* What the program does by itself; WindowClose is the user's.
Program ==
    \/ MainCallRandomWalk
    \/ RwStep
    \/ RwEndWalk
    \/ RwReturn
    \/ MainPrintRandomWalk
    \/ MainCallBuffonsNeedle
    \/ BnTrial
    \/ BnReturn
    \/ MainPrintBuffonsNeedle
    \/ CircleSetup
    \/ CircleSetupPanic
    \/ CircleFrame
    \/ CircleFramePanic
    \/ CircleReturn

Next ==
    \/ Program
    \/ WindowClose

Spec == Init /\ [][Next]_vars

\* The program keeps running while it can; nothing makes the user close the
\* window.
FairSpec == Spec /\ WF_vars(Program)

\* ================================================================ claims
FLeq[x \in Float, y \in Float] == FLess[x, y] \/ (IsFinite(x) /\ x = y)
InRandomWalk == pc \in {"random_walk", "random_walk_returned"}
InBuffonsNeedle == pc \in {"buffons_needle", "buffons_needle_returned"}

\* C1: the hit counter never exceeds the total counter, the ratio
\* 4 * hits / total is only drawn once total >= 1, and every ratio drawn
\* lies in [0, 4].
C1_CircleRatioBounded ==
    /\ inside_counter <= total_counter
    /\ \A i \in DOMAIN text :
        /\ total_counter >= 1
        /\ IsFinite(text[i])
        /\ FLeq[F(0), text[i]]
        /\ FLeq[text[i], F(4)]

\* Two samples, both inside the circle: the ratio drawn is 4.
C1_Witness == text = <<F(4)>> /\ total_counter = 2 /\ inside_counter = 2

\* C2: buffons_needle with iterations >= 1 and no crossing counted returns
\* +infinity as its value.
C2_NoCrossingIsInfinity ==
    (pc = "buffons_needle_returned" /\ iterations >= 1 /\ cross_counter = 0)
        => ret = <<PosInf>>

C2_Witness ==
    /\ pc = "buffons_needle_returned"
    /\ iterations = 2
    /\ cross_counter = 0
    /\ ret = <<PosInf>>

\* C3: random_walk with walks = 1 and steps >= 1 returns 2 * steps / d^2
\* for the final absolute position d of its one walk, and +infinity when
\* d = 0.
C3_SingleWalkResult ==
    (pc = "random_walk_returned" /\ walks = 1 /\ steps >= 1)
        => ret = <<IF abs_distance = 0 THEN PosInf
                   ELSE Mk[2 * steps, abs_distance * abs_distance]>>

\* One walk of two steps that ends where it started.
C3_Witness ==
    /\ pc = "random_walk_returned"
    /\ walks = 1
    /\ steps = 2
    /\ abs_distance = 0
    /\ ret = <<PosInf>>

\* A step of the loop of buffons_needle.
BnTrialStep == pc = "buffons_needle" /\ trial_i' = trial_i + 1

\* C4 as stated: a trial counts as a crossing exactly when the far endpoint
\* is outside [0, width), an endpoint equal to width included.
C4_CrossingOutsideHalfOpen ==
    [][BnTrialStep =>
        ((cross_counter' = cross_counter + 1) <=>
            (FLess[needle_end_x', F(0)] \/ ~FLess[needle_end_x', F(parallel_width)]))]_vars

\* C4 as amended: a trial counts as a crossing exactly when the far endpoint
\* is < 0 or > width; an endpoint equal to width is not a crossing.
C4_CrossingOutsideClosed ==
    [][BnTrialStep =>
        /\ cross_counter' \in {cross_counter, cross_counter + 1}
        /\ (cross_counter' = cross_counter + 1) <=>
            (FLess[needle_end_x', F(0)] \/ FLess[F(parallel_width), needle_end_x'])]_vars

\* The needle starts at 0 with angle 0: its end is exactly at width, and the
\* trial is not counted.
C4_Witness ==
    /\ pc = "buffons_needle"
    /\ trial_i = 1
    /\ needle_start_x = F(0)
    /\ angle = 0
    /\ needle_end_x = F(parallel_width)
    /\ cross_counter = 0

ResultLines == {i \in DOMAIN output : output[i].kind = "result"}

\* C5: a finished run of main has printed exactly three result lines
\* "<method-name>: pi = <float>", one for each method.
C5_ThreeResultLines ==
    pc = "done" =>
        /\ Cardinality(ResultLines) = 3
        /\ Cardinality({output[i].label : i \in ResultLines}) = 3

\* An estimator call is running.
InCall == pc \in {"random_walk", "buffons_needle", "circle_loop"}

\* A call is running that the claim as amended says completes by itself:
\* one of the two bounded loops, or the frame loop once the window is closed.
InBoundedCall ==
    \/ pc \in {"random_walk", "buffons_needle"}
    \/ (pc = "circle_loop" /\ ~window_open)

\* C6 as stated: every estimator call completes by itself after its fixed
\* number of samples, the circle-in-square one included.
C6_EveryCallCompletes == InCall ~> ~InCall

\* C6 as amended: random_walk returns after exactly walks * steps draws and
\* buffons_needle after exactly `iterations` trials, whatever the user
\* does; circle_inside_square returns only once the window is closed, and
\* does return then.
C6_BoundedCallsComplete ==
    /\ InBoundedCall ~> ~InCall
    /\ [](pc = "random_walk_returned" => flips = walks * steps)
    /\ [](pc = "buffons_needle_returned" => trial_i = iterations)
    /\ [][pc' = "done" => (pc = "circle_loop" /\ ~window_open)]_vars

\* All three calls are over: both result lines and the two lines of the
\* setup are printed and the window, closed after two samples, is gone.
C6_Witness ==
    /\ pc = "done"
    /\ Len(output) = 4
    /\ total_counter = 2
    /\ ~window_open

RECURSIVE SumOfAbs(_)
SumOfAbs(log) ==
    IF log = <<>> THEN 0
    ELSE Abs(Head(log)[1] - Head(log)[2]) + SumOfAbs(Tail(log))

\* C7: in random_walk every walk starts at 0 and moves by +1 or -1 per
\* step, so the position is #plus - #minus; |final position| is summed once
\* per walk, so the sum is the sum of |#plus - #minus| over the walks; the
\* value returned is 2 * steps / (sum / walks)^2.
C7_RandomWalkSum ==
    /\ InRandomWalk =>
        /\ plus_steps + minus_steps = step_i
        /\ position = plus_steps - minus_steps
        /\ Len(walk_log) = walk_i
        /\ \A k \in DOMAIN walk_log : walk_log[k][1] + walk_log[k][2] = steps
        /\ sum_of_abs_distances = SumOfAbs(walk_log)
    /\ (pc = "random_walk_returned" /\ steps >= 1 /\ walks >= 1) =>
        /\ Len(walk_log) = walks
        /\ ret = <<IF sum_of_abs_distances = 0 THEN PosInf
                   ELSE Mk[2 * steps * walks * walks,
                           sum_of_abs_distances * sum_of_abs_distances]>>

\* Two walks of three steps, one ending at distance 3 and one at distance 1.
C7_Witness ==
    /\ pc = "random_walk_returned"
    /\ steps = 3
    /\ walk_log = <<<<3, 0>>, <<1, 2>>>>
    /\ sum_of_abs_distances = 4
    /\ ret = <<Mk[3, 2]>>

\* The closure of draw_2d has run once more.
FrameStep == pc = "circle_loop" /\ pc' = "circle_loop" /\ window_open'

InSquare(v) == FLeq[F(-1), v] /\ FLess[v, F(1)]

\* C8: every sampled pixel is mapped to a point (x, y) of [-1, 1) x [-1, 1),
\* x = 2 * pos_x / WIDTH - 1 and y = 2 * pos_y / (HEIGHT - TEXT_HEIGHT) - 1,
\* and the hit counter (below its f64 limit) is incremented for the sample
\* if and only if x^2 + y^2 < 1.
C8_PointInSquareAndHit ==
    [][FrameStep =>
        /\ pos_x' \in 0..(WIDTH - 1)
        /\ pos_y' \in 0..(HEIGHT - TEXT_HEIGHT - 1)
        /\ point_x' = Mk[2 * pos_x' - WIDTH, WIDTH]
        /\ point_y' = Mk[2 * pos_y' - (HEIGHT - TEXT_HEIGHT), HEIGHT - TEXT_HEIGHT]
        /\ InSquare(point_x')
        /\ InSquare(point_y')
        /\ inside_counter' \in {inside_counter, inside_counter + 1}
        /\ inside_counter < MaxCount =>
            ((inside_counter' = inside_counter + 1) <=>
                FLess[FAdd[FMul[point_x', point_x'], FMul[point_y', point_y']],
                      F(1)])]_vars

\* The first sample is the pixel (0, 256), the point (-1, 0) on the circle
\* itself: it is not a hit.
C8_Witness ==
    /\ pc = "circle_loop"
    /\ total_counter = 1
    /\ pos_x = 0
    /\ pos_y = (HEIGHT - TEXT_HEIGHT) \div 2
    /\ point_x = F(-1)
    /\ point_y = F(0)
    /\ inside_counter = 0

\* C9: in buffons_needle the crossing counter is at most the number of
\* trials done, so a finite value returned for iterations >= 1 is >= 2, and
\* no value returned lies in [0, 2).
C9_BuffonAtLeastTwo ==
    /\ InBuffonsNeedle => (cross_counter <= trial_i /\ trial_i <= iterations)
    /\ pc = "buffons_needle_returned" =>
        /\ (iterations >= 1 /\ IsFinite(ret[1])) => FLeq[F(2), ret[1]]
        /\ ~(FLeq[F(0), ret[1]] /\ FLess[ret[1], F(2)])

\* Every one of three trials crossed: the value returned is exactly 2.
C9_Witness ==
    /\ pc = "buffons_needle_returned"
    /\ iterations = 3
    /\ cross_counter = 3
    /\ ret = <<F(2)>>

\* C10: in random_walk the position after k steps is at most k away from 0
\* and has the parity of k; with `steps` odd every finished walk ended at
\* distance >= 1, the average is not 0 and the value returned for
\* walks >= 1 is finite; a zero average (walks >= 1) needs `steps` even.
C10_WalkParity ==
    /\ InRandomWalk =>
        /\ Abs(position) <= step_i
        /\ (position + step_i) % 2 = 0
        /\ steps % 2 = 1 =>
            /\ \A k \in DOMAIN walk_log : Abs(walk_log[k][1] - walk_log[k][2]) >= 1
            /\ sum_of_abs_distances >= walk_i
    /\ (pc = "random_walk_returned" /\ walks >= 1) =>
        /\ steps % 2 = 1 => (sum_of_abs_distances >= walks /\ IsFinite(ret[1]))
        /\ sum_of_abs_distances = 0 => steps % 2 = 0

\* Two walks of three steps, both ending at distance 1: the value returned
\* is the finite 2 * 3 / 1^2.
C10_Witness ==
    /\ pc = "random_walk_returned"
    /\ steps = 3
    /\ walks = 2
    /\ sum_of_abs_distances = 2
    /\ ret = <<F(6)>>
=============================================================================
